---- MODULE Spec2Model ----
(***************************************************************************)
(* A model of package tint (src/handler.go, src/logger.go, the buffer pool *)
(* of src/unnamed/part_003): the Handler, its derivation by WithAttrs and  *)
(* WithGroup, the line formatter, and the adapter operations.              *)
(*                                                                         *)
(* Text is modelled byte-wise: a string is a sequence of one-character     *)
(* strings.  An ANSI escape sequence is one element (its bytes are never   *)
(* split by the code).  The separator byte ' ' that Handle, appendAttr     *)
(* write with buf.WriteByte(' ') is the element SEP, to tell it from a     *)
(* blank that is part of a field's content; Bytes erases the distinction.  *)
(***************************************************************************)
EXTENDS Integers, Sequences, FiniteSets, TLC

(* ------------------------------------------------------------------ *)
(* Bounds of the model                                                 *)
(* ------------------------------------------------------------------ *)
\* Longest chain of WithGroup calls a run starts from.
MaxChain == 3
\* Handlers derived in a derivation run, after the chain it starts from.
MaxDerive == 2
\* Handle calls started in a concurrent run.
MaxCalls == 2
\* Bytes of the long message, which outgrows maxBufferSize.
LongRun == 20000
\* How far below Debug and above Error the levels of a level run reach.
MaxLevelOffset == 8
\* Loggers made by NewLogger in a run of package log.
MaxLoggers == 3

(* ------------------------------------------------------------------ *)
(* Program constants                                                   *)
(* ------------------------------------------------------------------ *)
LevelDebug == -4
LevelInfo == 0
LevelWarn == 4
LevelError == 8
\* kratos log.Level values switched on by Log
KLevelDebug == -1
KLevelInfo == 0
KLevelWarn == 1
KLevelError == 2
KLevelFatal == 3
\* make(buffer, 0, 1024) and maxBufferSize = 16 << 10
InitialBufferCap == 1024
maxBufferSize == 16384
\* default of Options.Skip
DefaultSkip == 4

ansiReset == "ESC[0m"
ansiFaint == "ESC[2m"
ansiResetFaint == "ESC[22m"
ansiBrightRed == "ESC[91m"
ansiBrightGreen == "ESC[92m"
ansiBrightYellow == "ESC[93m"
ansiBrightRedFaint == "ESC[91;2m"
ansiBrightBlue == "ESC[34;1m"
AnsiCodes == {ansiReset, ansiFaint, ansiResetFaint, ansiBrightRed, ansiBrightGreen,
              ansiBrightYellow, ansiBrightRedFaint, ansiBrightBlue}

\* LongRun bytes 'x' of content
RUN == "RUN"
\* the separator byte written by buf.WriteByte(' ')
SEP == "SEP"
\* the byte '\n' that Handle stores over the last byte of the buffer
NL == "NL"

errKey == <<"e", "r", "r">>
TimeKey == <<"t", "i", "m", "e">>
LevelKey == <<"l", "e", "v", "e", "l">>
SourceKey == <<"s", "o", "u", "r", "c", "e">>
MessageKey == <<"m", "s", "g">>

(* ------------------------------------------------------------------ *)
(* Strings                                                             *)
(* ------------------------------------------------------------------ *)
\* the byte an element of a buffer stands for
Byte(c) == IF c = SEP THEN " " ELSE IF c = NL THEN "\n" ELSE c

Bytes(s) == [i \in 1..Len(s) |-> Byte(s[i])]

IsSpace(c) == c \in {" ", "\n", "\t"}

IsPrint(c) == c \notin {"\n", "\t"}

Digit(d) == <<"0", "1", "2", "3", "4", "5", "6", "7", "8", "9">>[d + 1]

RECURSIVE NatString(_)
NatString(n) == IF n < 10 THEN <<Digit(n)>> ELSE NatString(n \div 10) \o <<Digit(n % 10)>>

\* strconv.AppendInt(_, n, 10), strconv.Itoa
Itoa(n) == IF n < 0 THEN <<"-">> \o NatString(-n) ELSE NatString(n)

\* the bytes strconv.AppendQuote writes for one character
QuoteChar(c) ==
    IF c = "\"" THEN <<"\\", "\"">>
    ELSE IF c = "\\" THEN <<"\\", "\\">>
    ELSE IF c = "\n" THEN <<"\\", "n">>
    ELSE IF c = "\t" THEN <<"\\", "t">>
    ELSE <<c>>

RECURSIVE QuoteBody(_)
QuoteBody(s) == IF s = <<>> THEN <<>> ELSE QuoteChar(Head(s)) \o QuoteBody(Tail(s))

\* strconv.AppendQuote
AppendQuote(s) == <<"\"">> \o QuoteBody(s) \o <<"\"">>

needsQuoting(s) ==
    \/ Len(s) = 0
    \/ \E i \in 1..Len(s) : IsSpace(s[i]) \/ s[i] = "\"" \/ s[i] = "=" \/ ~IsPrint(s[i])

appendString(s, quote) == IF quote /\ needsQuoting(s) THEN AppendQuote(s) ELSE s

WriteStringIf(ok, str) == IF ok THEN <<str>> ELSE <<>>

\* the bytes an element of a buffer takes
ElemLen(c) ==
    CASE c \in {ansiReset, ansiFaint} -> 4
      [] c \in {ansiResetFaint, ansiBrightRed, ansiBrightGreen, ansiBrightYellow} -> 5
      [] c \in {ansiBrightRedFaint, ansiBrightBlue} -> 7
      [] c = RUN -> LongRun
      [] OTHER -> 1

RECURSIVE ByteLen(_)
ByteLen(s) == IF s = <<>> THEN 0 ELSE ElemLen(Head(s)) + ByteLen(Tail(s))

(* ------------------------------------------------------------------ *)
(* slog values, attributes and records                                 *)
(* ------------------------------------------------------------------ *)
\* A slog.Value: kind is the slog.Kind; for KindAny, any names the dynamic
\* type held ("nil", "Error" = tint.Error, "Level" = slog.Level, "Source" =
\* *slog.Source, "Marshaler" = an encoding.TextMarshaler, "Other").
\* s carries text, n a number, attrs the members of a group.
Value(kind, any, s, n, attrs) == [kind |-> kind, any |-> any, s |-> s, n |-> n, attrs |-> attrs]

StringValue(s) == Value("String", "", s, 0, <<>>)
Int64Value(n) == Value("Int64", "", <<>>, n, <<>>)
BoolValue(b) == Value("Bool", "", <<>>, IF b THEN 1 ELSE 0, <<>>)
TimeValue(t) == Value("Time", "", <<>>, t, <<>>)
GroupValue(as) == Value("Group", "", <<>>, 0, as)
\* the zero slog.Value: KindAny holding nil
NilValue == Value("Any", "nil", <<>>, 0, <<>>)
LevelValue(l) == Value("Any", "Level", <<>>, l, <<>>)
SourceValue(file, line) == Value("Any", "Source", file, line, <<>>)
\* tint.Error{err}, err.Error() = msg
ErrorValue(msg) == Value("Any", "Error", msg, 0, <<>>)
\* a TextMarshaler: MarshalText returns (text, nil) or, with failed, (nil, err)
MarshalerValue(text, failed) == Value("Any", "Marshaler", text, IF failed THEN 1 ELSE 0, <<>>)
OtherValue(text) == Value("Any", "Other", text, 0, <<>>)

Attr(key, val) == [key |-> key, val |-> val]

\* slog.Attr{}
ZeroAttr == Attr(<<>>, NilValue)

\* tint.Err(err)
Err(isNil, msg) == Attr(errKey, IF isNil THEN NilValue ELSE ErrorValue(msg))

\* slog.NewRecord(t, level, msg, pc) followed by Add/AddAttrs
Record(t, level, msg, pc, attrs) == [time |-> t, level |-> level, msg |-> msg, pc |-> pc, attrs |-> attrs]

\* the frame runtime.CallersFrames resolves r.PC to: pc 0 resolves to no file
FrameFile(pc) == IF pc = 0 THEN <<>> ELSE <<"r", "/", "p", "/", "m">>
FrameLine(pc) == IF pc = 0 THEN 0 ELSE 7

(* ------------------------------------------------------------------ *)
(* ReplaceAttr hooks                                                   *)
(* ------------------------------------------------------------------ *)
\* "nil": no hook.  "identity": returns the attribute.  "dropTime": the hook
\* of the package documentation.  "clearKey": returns the attribute with an
\* empty key and its value kept.  "dropAll": returns slog.Attr{}.
Hooks == {"nil", "identity", "dropTime", "clearKey", "dropAll"}

ApplyHook(rep, groups, a) ==
    CASE rep = "identity" -> a
      [] rep = "dropTime" -> IF a.key = TimeKey /\ Len(groups) = 0 THEN ZeroAttr ELSE a
      [] rep = "clearKey" -> Attr(<<>>, a.val)
      [] rep = "dropAll" -> ZeroAttr
      [] OTHER -> a

(* ------------------------------------------------------------------ *)
(* Go slices of group names                                            *)
(* ------------------------------------------------------------------ *)
\* A []string: arr is the backing array's place in the heap, or 0 for an
\* array no Handler refers to (nil, or allocated during one formatting call),
\* whose cells are then kept in priv.
Slice(arr, len, cap, priv) == [arr |-> arr, len |-> len, cap |-> cap, priv |-> priv]

NilSlice == Slice(0, 0, 0, <<>>)

\* the elements s[0:len]
SliceVal(hp, s) == IF s.arr = 0 THEN SubSeq(s.priv, 1, s.len) ELSE SubSeq(hp[s.arr], 1, s.len)

\* the capacity append gives a []string that is full when one element is added
GrowCap(cap) == IF cap = 0 THEN 1 ELSE 2 * cap

\* append(s, x).  With room left (len < cap) append stores x into the backing
\* array in place; else it copies into a new array, which is put in the heap
\* when escapes (it is kept by a Handler) and kept private otherwise.
\* store is the set of heap cells <<array, index>> written.
GoAppend(hp, s, x, escapes) ==
    IF s.len < s.cap
    THEN IF s.arr = 0
         THEN [heap |-> hp, store |-> {},
               slice |-> Slice(0, s.len + 1, s.cap, [s.priv EXCEPT ![s.len + 1] = x])]
         ELSE [heap |-> [hp EXCEPT ![s.arr][s.len + 1] = x], store |-> {<<s.arr, s.len + 1>>},
               slice |-> Slice(s.arr, s.len + 1, s.cap, <<>>)]
    ELSE LET ncap == GrowCap(s.cap)
             cells == [i \in 1..ncap |-> IF i <= s.len THEN SliceVal(hp, s)[i]
                                          ELSE IF i = s.len + 1 THEN x ELSE <<>>]
         IN IF escapes
            THEN [heap |-> Append(hp, cells), store |-> {},
                  slice |-> Slice(Len(hp) + 1, s.len + 1, ncap, <<>>)]
            ELSE [heap |-> hp, store |-> {},
                  slice |-> Slice(0, s.len + 1, ncap, cells)]

(* ------------------------------------------------------------------ *)
(* The line formatter                                                  *)
(* ------------------------------------------------------------------ *)
\* t.AppendFormat(buf, layout): time.DateTime has a blank between date and time
FormatTime(t, layout) ==
    IF layout = "DateTime" THEN <<"D">> \o Itoa(t) \o <<" ", "T">> ELSE <<"K">> \o Itoa(t)

\* t.String()
TimeString(t) == <<"D">> \o Itoa(t) \o <<" ", "T", " ", "Z">>

appendTime(h, t) ==
    WriteStringIf(~h.noColor, ansiFaint) \o FormatTime(t, h.timeFormat)
        \o WriteStringIf(~h.noColor, ansiReset)

\* appendLevelDelta as it would be without the sign of a positive delta
appendLevelDeltaUnsigned(delta) == IF delta = 0 THEN <<>> ELSE Itoa(delta)

appendLevelDelta(delta) ==
    IF delta = 0 THEN <<>>
    ELSE IF delta > 0 THEN <<"+">> \o Itoa(delta)
    ELSE Itoa(delta)

appendLevel(h, level) ==
    CASE level < LevelInfo ->
            WriteStringIf(~h.noColor, ansiBrightBlue) \o <<"D", "E", "B", "U", "G">>
                \o appendLevelDelta(level - LevelDebug) \o WriteStringIf(~h.noColor, ansiReset)
      [] level >= LevelInfo /\ level < LevelWarn ->
            WriteStringIf(~h.noColor, ansiBrightGreen) \o <<"I", "N", "F", "O">>
                \o appendLevelDelta(level - LevelInfo) \o WriteStringIf(~h.noColor, ansiReset)
      [] level >= LevelWarn /\ level < LevelError ->
            WriteStringIf(~h.noColor, ansiBrightYellow) \o <<"W", "A", "R", "N">>
                \o appendLevelDelta(level - LevelWarn) \o WriteStringIf(~h.noColor, ansiReset)
      [] OTHER ->
            WriteStringIf(~h.noColor, ansiBrightRed) \o <<"E", "R", "R", "O", "R">>
                \o appendLevelDelta(level - LevelError) \o WriteStringIf(~h.noColor, ansiReset)

\* the index of the last "/" of a path, 0 when it has none
LastSlash(path) ==
    LET at == {i \in 1..Len(path) : path[i] = "/"}
    IN IF at = {} THEN 0 ELSE CHOOSE i \in at : \A j \in at : j <= i

\* filepath.Join(filepath.Base(dir), file) for dir, file := filepath.Split(path)
SourcePath(path) ==
    LET cut == LastSlash(path)
        file == SubSeq(path, cut + 1, Len(path))
        dir == SubSeq(path, 1, cut - 1)
        base == SubSeq(dir, LastSlash(dir) + 1, Len(dir))
    IN IF cut = 0 THEN file
       ELSE IF base = <<>> THEN <<"/">> \o file
       ELSE base \o <<"/">> \o file

appendSource(h, file, line) ==
    WriteStringIf(~h.noColor, ansiFaint) \o SourcePath(file) \o <<":">> \o Itoa(line)
        \o WriteStringIf(~h.noColor, ansiReset)

\* fmt.Sprint(v.Any())
Sprint(v) == IF v.any = "nil" THEN <<"<", "n", "i", "l", ">">> ELSE v.s

appendValue(h, v, quote) ==
    CASE v.kind = "String" -> appendString(v.s, quote)
      [] v.kind = "Int64" -> Itoa(v.n)
      [] v.kind = "Bool" -> IF v.n = 1 THEN <<"t", "r", "u", "e">> ELSE <<"f", "a", "l", "s", "e">>
      [] v.kind = "Time" -> appendString(TimeString(v.n), quote)
      [] v.kind = "Any" ->
            (CASE v.any = "Level" -> appendLevel(h, v.n)
               [] v.any = "Marshaler" -> IF v.n = 1 THEN <<>> ELSE appendString(v.s, quote)
               [] v.any = "Source" -> appendSource(h, v.s, v.n)
               [] OTHER -> appendString(Sprint(v), quote))
      [] OTHER -> <<>>

appendKey(h, key, groups) ==
    WriteStringIf(~h.noColor, ansiFaint) \o appendString(groups \o key, TRUE) \o <<"=">>
        \o WriteStringIf(~h.noColor, ansiReset)

appendError(h, msg, groupsPrefix) ==
    WriteStringIf(~h.noColor, ansiBrightRedFaint) \o appendString(groupsPrefix \o errKey, TRUE)
        \o <<"=">> \o WriteStringIf(~h.noColor, ansiResetFaint) \o appendString(msg, TRUE)
        \o WriteStringIf(~h.noColor, ansiReset)

\* the test appendAttr would make if it dropped every attribute whose key is empty
IsEmptyKey(attr) == attr.key = <<>>

\* attr.Equal(slog.Attr{})
IsZeroAttr(attr) == attr.key = <<>> /\ attr.val = NilValue

\* A formatting call's working state: buf the buffer, heap the group arrays,
\* stores the heap cells the call has written.
Fmt(buf, hp, stores) == [buf |-> buf, heap |-> hp, stores |-> stores]

RECURSIVE appendAttr(_, _, _, _, _)
appendAttr(m, h, attr0, groupsPrefix, groups) ==
    LET rep == h.replaceAttr
        attr == IF rep # "nil" /\ attr0.val.kind # "Group"
                THEN ApplyHook(rep, SliceVal(m.heap, groups), attr0)
                ELSE attr0
    IN  IF IsZeroAttr(attr) THEN m
        ELSE IF attr.val.kind = "Group"
        THEN LET ap == IF attr.key # <<>>
                       THEN GoAppend(m.heap, groups, attr.key, FALSE)
                       ELSE [heap |-> m.heap, store |-> {}, slice |-> groups]
                 gp == IF attr.key # <<>> THEN groupsPrefix \o attr.key \o <<".">> ELSE groupsPrefix
                 RECURSIVE members(_, _)
                 members(mm, as) ==
                     IF as = <<>> THEN mm
                     ELSE members(appendAttr(mm, h, Head(as), gp, ap.slice), Tail(as))
             IN members(Fmt(m.buf, ap.heap, m.stores \cup ap.store), attr.val.attrs)
        ELSE IF attr.val.kind = "Any" /\ attr.val.any = "Error"
        THEN [m EXCEPT !.buf = @ \o appendError(h, attr.val.s, groupsPrefix) \o <<SEP>>]
        ELSE [m EXCEPT !.buf = @ \o appendKey(h, attr.key, groupsPrefix)
                                  \o appendValue(h, attr.val, TRUE) \o <<SEP>>]

\* a loop of appendAttr calls over attrs, as r.Attrs and WithAttrs run it
RECURSIVE appendAttrs(_, _, _, _, _)
appendAttrs(m, h, attrs, groupsPrefix, groups) ==
    IF attrs = <<>> THEN m
    ELSE appendAttrs(appendAttr(m, h, Head(attrs), groupsPrefix, groups), h, Tail(attrs),
                     groupsPrefix, groups)

\* one built-in field of Handle under a hook: rep(nil, a), then the value and
\* the separator unless the returned key is empty
builtinField(h, a) ==
    LET b == ApplyHook(h.replaceAttr, <<>>, a)
    IN  IF b.key = <<>> THEN <<>>
        ELSE IF a.key = TimeKey /\ b.val.kind = "Time" THEN appendTime(h, b.val.n) \o <<SEP>>
        ELSE appendValue(h, b.val, FALSE) \o <<SEP>>

\* Handle up to the test of len(*buf): the buffer's content, the heap after
\* the call's stores, and those stores
formatRecord(h, r, hp, buf) ==
    LET rep == h.replaceAttr
        time == IF r.time = 0 THEN <<>>
                ELSE IF rep = "nil" THEN appendTime(h, r.time) \o <<SEP>>
                ELSE builtinField(h, Attr(TimeKey, TimeValue(r.time)))
        level == IF rep = "nil" THEN appendLevel(h, r.level) \o <<SEP>>
                 ELSE builtinField(h, Attr(LevelKey, LevelValue(r.level)))
        source == IF h.addSource /\ FrameFile(r.pc) # <<>>
                  THEN IF rep = "nil"
                       THEN appendSource(h, FrameFile(r.pc), FrameLine(r.pc)) \o <<SEP>>
                       ELSE builtinField(h, Attr(SourceKey, SourceValue(FrameFile(r.pc), FrameLine(r.pc))))
                  ELSE <<>>
        msg == IF rep = "nil" THEN r.msg \o <<SEP>>
               ELSE builtinField(h, Attr(MessageKey, StringValue(r.msg)))
    IN  appendAttrs(Fmt(buf \o time \o level \o source \o msg \o h.attrsPrefix, hp, {}),
                    h, r.attrs, h.groupPrefix, h.groups)

\* (*buf)[len(*buf)-1] = '\n'
endLine(buf) == [buf EXCEPT ![Len(buf)] = NL]

(* ------------------------------------------------------------------ *)
(* Handler: construction and derivation                                *)
(* ------------------------------------------------------------------ *)
VARIABLES
    handlers,   \* the Handlers that exist, in the order they were created
    heap,       \* the backing arrays of the Handlers' groups slices
    last,       \* the last WithAttrs/WithGroup call: receiver, result, and
                \* what every Handler looked like before it
    nderived,   \* Handlers derived since the run started
    mus,        \* the mutexes: the thread holding each, 0 when unlocked
    thr,        \* the threads: where each is in its Handle call
    bufs,       \* the buffers: capacity (0: not allocated) and content
    pool,       \* bufPool: the buffers that were put back
    wlog,       \* the destination: the Write calls it has received
    calls,      \* the Handle calls started, and how each went
    req,        \* the call a sequential run is to make
    lastop,     \* the call a sequential run has made, and what it did
    levelVar,   \* package log: the level the process-wide slog.LevelVar holds
    defaultOptions, \* package log: the Options struct defaultOptions points to
    loggers,    \* package log: the loggers NewLogger has returned
    lastlog     \* package log: the last NewLogger/SetLevel call

varsDerive == <<handlers, heap, last, nderived>>
varsConc == <<mus, thr, bufs, pool, wlog, calls>>
varsSeq == <<req, lastop>>
varsLog == <<levelVar, defaultOptions, loggers, lastlog>>
vars == <<handlers, heap, last, nderived, mus, thr, bufs, pool, wlog, calls, req, lastop,
          levelVar, defaultOptions, loggers, lastlog>>

\* package log: the struct defaultOptions points to when the package is loaded
PackageDefaults ==
    [Level |-> "INFO", Dir |-> "", OutputType |-> "console",
     MaxSize |-> 1, MaxBackups |-> 1, MaxAge |-> 1, Compress |-> TRUE]

NoLogCall == [op |-> "none"]

\* package log as it is loaded: new(slog.LevelVar) holds LevelInfo
InitLogIdle ==
    /\ levelVar = LevelInfo
    /\ defaultOptions = PackageDefaults
    /\ loggers = <<>>
    /\ lastlog = NoLogCall

\* the writer every Handler of a run is created on
TheWriter == 1

\* *Options: isNil for a nil pointer; Level 0 with hasLevel FALSE is a nil Leveler
Options(addSource, hasLevel, level, rep, timeFormat, noColor, skip) ==
    [isNil |-> FALSE, AddSource |-> addSource, hasLevel |-> hasLevel, Level |-> level,
     ReplaceAttr |-> rep, TimeFormat |-> timeFormat, NoColor |-> noColor, Skip |-> skip]

NilOptions ==
    [isNil |-> TRUE, AddSource |-> FALSE, hasLevel |-> FALSE, Level |-> 0,
     ReplaceAttr |-> "nil", TimeFormat |-> "", NoColor |-> FALSE, Skip |-> 0]

\* The Handler struct.  mu is the identity of the struct's own sync.Mutex
\* field: the mutex is a value inside the struct, so every Handler struct
\* has one of its own.
NewHandler(w, opts, mu) ==
    LET h == [attrsPrefix |-> <<>>, groupPrefix |-> <<>>, groups |-> NilSlice,
              mu |-> mu, w |-> w,
              addSource |-> FALSE, level |-> LevelInfo, replaceAttr |-> "nil",
              timeFormat |-> "DateTime", noColor |-> FALSE, skip |-> 0]
    IN  IF opts.isNil THEN h
        ELSE [h EXCEPT !.addSource = opts.AddSource,
                       !.level = IF opts.hasLevel THEN opts.Level ELSE @,
                       !.replaceAttr = opts.ReplaceAttr,
                       !.timeFormat = IF opts.TimeFormat # "" THEN opts.TimeFormat ELSE @,
                       !.noColor = opts.NoColor,
                       !.skip = IF opts.Skip > 0 THEN opts.Skip ELSE DefaultSkip]

\* clone builds a new struct from the fields it lists: mu is the new struct's
\* own zero mutex, skip is left zero, groups shares h's backing array.
clone(h, mu) ==
    [attrsPrefix |-> h.attrsPrefix, groupPrefix |-> h.groupPrefix, groups |-> h.groups,
     mu |-> mu, w |-> h.w,
     addSource |-> h.addSource, level |-> h.level, replaceAttr |-> h.replaceAttr,
     timeFormat |-> h.timeFormat, noColor |-> h.noColor, skip |-> 0]

\* The result of a derivation on Handler i of hs: the Handlers and the heap
\* after it, the Handler returned, and the heap cells it stored into.
Derived(hs, hp, res, stores) == [handlers |-> hs, heap |-> hp, res |-> res, stores |-> stores]

\* WithAttrs as it would be if it rendered the attributes outside the groups
\* of the receiver
WithAttrsUngrouped(hs, hp, i, attrs) ==
    IF Len(attrs) = 0 THEN Derived(hs, hp, i, {})
    ELSE LET h == hs[i]
             h2 == clone(h, Len(hs) + 1)
             m == appendAttrs(Fmt(<<>>, hp, {}), h, attrs, <<>>, NilSlice)
         IN Derived(Append(hs, [h2 EXCEPT !.attrsPrefix = h.attrsPrefix \o m.buf]),
                    m.heap, Len(hs) + 1, m.stores)

WithAttrs(hs, hp, i, attrs) ==
    IF Len(attrs) = 0 THEN Derived(hs, hp, i, {})
    ELSE LET h == hs[i]
             h2 == clone(h, Len(hs) + 1)
             m == appendAttrs(Fmt(<<>>, hp, {}), h, attrs, h.groupPrefix, h.groups)
         IN Derived(Append(hs, [h2 EXCEPT !.attrsPrefix = h.attrsPrefix \o m.buf]),
                    m.heap, Len(hs) + 1, m.stores)

\* WithGroup as it would be if it extended the receiver's prefix before cloning
WithGroupOnReceiver(hs, hp, i, name) ==
    IF name = <<>> THEN Derived(hs, hp, i, {})
    ELSE LET h1 == [hs[i] EXCEPT !.groupPrefix = @ \o name \o <<".">>]
             h2 == clone(h1, Len(hs) + 1)
             ap == GoAppend(hp, h2.groups, name, TRUE)
         IN Derived(Append([hs EXCEPT ![i] = h1], [h2 EXCEPT !.groups = ap.slice]),
                    ap.heap, Len(hs) + 1, ap.store)

WithGroup(hs, hp, i, name) ==
    IF name = <<>> THEN Derived(hs, hp, i, {})
    ELSE LET h2 == clone(hs[i], Len(hs) + 1)
             ap == GoAppend(hp, h2.groups, name, TRUE)
         IN Derived(Append(hs, [h2 EXCEPT !.groupPrefix = @ \o name \o <<".">>,
                                          !.groups = ap.slice]),
                    ap.heap, Len(hs) + 1, ap.store)

\* Level.Level() >= h.level.Level()
Enabled(h, level) == level >= h.level

\* what the fields of Handler i hold, the group stack read through the heap
View(hs, hp, i) ==
    [attrsPrefix |-> hs[i].attrsPrefix, groupPrefix |-> hs[i].groupPrefix,
     groups |-> SliceVal(hp, hs[i].groups), w |-> hs[i].w,
     addSource |-> hs[i].addSource, level |-> hs[i].level,
     replaceAttr |-> hs[i].replaceAttr, timeFormat |-> hs[i].timeFormat,
     noColor |-> hs[i].noColor, skip |-> hs[i].skip]

Views(hs, hp) == [i \in 1..Len(hs) |-> View(hs, hp, i)]

(* ------------------------------------------------------------------ *)
(* Derivation runs: NewHandler, then WithAttrs and WithGroup calls     *)
(* ------------------------------------------------------------------ *)
\* the Options a derivation run constructs its first Handler with
DeriveOptions == Options(FALSE, FALSE, 0, "identity", "", TRUE, 0)

GroupNames == {<<>>, <<"a">>, <<"b">>}

\* attribute lists passed to WithAttrs: none, or a plain attribute followed
\* by a keyed group
AttrLists ==
    {<<>>,
     <<Attr(<<"k">>, StringValue(<<"v">>)),
       Attr(<<"g">>, GroupValue(<<Attr(<<"c">>, Int64Value(1))>>))>>}

NoCall == [op |-> "none", recv |-> 0, res |-> 0, before |-> <<>>, stores |-> {}]

Threads == {1, 2}

\* the buffers that can be allocated at one time: one for each thread
Buffers == 1..Cardinality(Threads)

\* a thread that is in no call
Idle == [pc |-> "idle", call |-> 0, buf |-> 0, err |-> "nil"]

NoBuffer == [cap |-> 0, data |-> <<>>]

\* no thread in a call, no buffer allocated, nothing written
InitConcIdle ==
    /\ mus = [m \in {} |-> 0]
    /\ thr = [t \in Threads |-> Idle]
    /\ bufs = [b \in Buffers |-> NoBuffer]
    /\ pool = {}
    /\ wlog = <<>>
    /\ calls = <<>>

NoOp == [op |-> "none"]

\* the group name of the chains the runs start from
ChainName == <<"a">>

\* The Handlers and heap after NewHandler(w, opts) and d WithGroup(ChainName)
\* calls, each on the Handler the call before returned.
RECURSIVE Chain(_, _)
Chain(opts, d) ==
    IF d = 0 THEN Derived(<<NewHandler(TheWriter, opts, 1)>>, <<>>, 1, {})
    ELSE LET c == Chain(opts, d - 1) IN WithGroup(c.handlers, c.heap, c.res, ChainName)

InitDerive ==
    /\ \E d \in 0..MaxChain :
            /\ handlers = Chain(DeriveOptions, d).handlers
            /\ heap = Chain(DeriveOptions, d).heap
    /\ last = NoCall
    /\ nderived = 0
    /\ InitConcIdle
    /\ req = NoOp
    /\ lastop = NoOp
    /\ InitLogIdle

DoWithAttrs(i, attrs) ==
    LET d == WithAttrs(handlers, heap, i, attrs)
    IN  /\ d.res # i => nderived < MaxDerive
        /\ handlers' = d.handlers
        /\ heap' = d.heap
        /\ nderived' = IF d.res # i THEN nderived + 1 ELSE nderived
        /\ last' = [op |-> "WithAttrs", recv |-> i, res |-> d.res,
                    before |-> Views(handlers, heap), stores |-> d.stores]
        /\ UNCHANGED <<varsConc, varsSeq, varsLog>>

DoWithGroup(i, name) ==
    LET d == WithGroup(handlers, heap, i, name)
    IN  /\ d.res # i => nderived < MaxDerive
        /\ handlers' = d.handlers
        /\ heap' = d.heap
        /\ nderived' = IF d.res # i THEN nderived + 1 ELSE nderived
        /\ last' = [op |-> "WithGroup", recv |-> i, res |-> d.res,
                    before |-> Views(handlers, heap), stores |-> d.stores]
        /\ UNCHANGED <<varsConc, varsSeq, varsLog>>

NextDerive ==
    \/ \E i \in 1..Len(handlers), attrs \in AttrLists : DoWithAttrs(i, attrs)
    \/ \E i \in 1..Len(handlers), name \in GroupNames : DoWithGroup(i, name)

SpecDerive == InitDerive /\ [][NextDerive]_vars

(* ------------------------------------------------------------------ *)
(* The buffer pool                                                     *)
(* ------------------------------------------------------------------ *)
\* buffers not allocated (never made, or dropped and collected)
Unallocated(bs) == {b \in DOMAIN bs : bs[b].cap = 0}

\* newBuffer: bufPool.Get() hands out a pooled buffer, or one made by New
\* (make(buffer, 0, 1024)); sync.Pool may do the latter whatever it holds.
\* The outcomes: the buffer handed out, the buffers and the pool after.
newBuffer(bs, pl) ==
    {[id |-> b, bufs |-> bs, pool |-> pl \ {b}] : b \in pl}
    \cup {[id |-> b, bufs |-> [bs EXCEPT ![b] = [cap |-> InitialBufferCap, data |-> <<>>]],
           pool |-> pl] :
            b \in {u \in Unallocated(bs) : \A v \in Unallocated(bs) : u <= v}}

\* the buffer after appends have made its content data: append keeps the
\* array while the content fits and moves to one that holds it otherwise
Grown(buf, data) ==
    [cap |-> IF ByteLen(data) <= buf.cap THEN buf.cap ELSE ByteLen(data), data |-> data]

\* buffer.Free as it would be if it put the buffer back with its content
FreeKeepsContent(bs, pl, b) ==
    IF bs[b].cap <= maxBufferSize
    THEN [bufs |-> bs, pool |-> pl \cup {b}]
    ELSE [bufs |-> [bs EXCEPT ![b] = NoBuffer], pool |-> pl]

\* buffer.Free: a buffer within maxBufferSize is emptied and put back, a
\* larger one is left to the collector
Free(bs, pl, b) ==
    IF bs[b].cap <= maxBufferSize
    THEN [bufs |-> [bs EXCEPT ![b].data = <<>>], pool |-> pl \cup {b}]
    ELSE [bufs |-> [bs EXCEPT ![b] = NoBuffer], pool |-> pl]

(* ------------------------------------------------------------------ *)
(* Concurrent runs: threads calling Handle on Handlers of one chain    *)
(* ------------------------------------------------------------------ *)
\* the Options a concurrent run constructs its first Handler with
ConcOptions ==
    {NilOptions,
     Options(FALSE, FALSE, 0, "clearKey", "", TRUE, 0)}

\* the records the threads log: a message with a keyed group attribute, and
\* a long message without attributes
ConcRecords ==
    {Record(1, LevelInfo, <<"h", "i">>, 0,
            <<Attr(<<"g">>, GroupValue(<<Attr(<<"c">>, Int64Value(1))>>))>>),
     Record(1, LevelError, <<RUN>>, 0, <<>>)}

InitConc ==
    /\ \E opts \in ConcOptions, d \in 1..MaxChain :
            /\ handlers = Chain(opts, d).handlers
            /\ heap = Chain(opts, d).heap
    /\ last = NoCall
    /\ nderived = 0
    /\ mus = [m \in 1..Len(handlers) |-> 0]
    /\ thr = [t \in Threads |-> Idle]
    /\ bufs = [b \in Buffers |-> NoBuffer]
    /\ pool = {}
    /\ wlog = <<>>
    /\ calls = <<>>
    /\ req = NoOp
    /\ lastop = NoOp
    /\ InitLogIdle

\* the Handler thread t is calling Handle on
HandlerOf(t) == handlers[calls[thr[t].call].h]

\* Handle, lines 264-265: buf := newBuffer(); defer buf.Free()
Begin(t, i, r) ==
    /\ thr[t].pc = "idle"
    /\ Len(calls) < MaxCalls
    /\ \E nb \in newBuffer(bufs, pool) :
            /\ bufs' = nb.bufs
            /\ pool' = nb.pool
            /\ thr' = [thr EXCEPT ![t] = [pc |-> "format", call |-> Len(calls) + 1,
                                          buf |-> nb.id, err |-> "nil"]]
    /\ calls' = Append(calls, [op |-> "Handle", t |-> t, h |-> i, rec |-> r,
                               got |-> bufs'[thr'[t].buf].data,
                               stores |-> {}, line |-> <<>>, nwrites |-> 0,
                               locked |-> FALSE, ret |-> "none", done |-> FALSE])
    /\ UNCHANGED <<varsDerive, mus, wlog, varsSeq, varsLog>>

\* Handle, lines 267-335: the record is rendered into the buffer, without
\* the lock
Format(t) ==
    /\ thr[t].pc = "format"
    /\ LET m == formatRecord(HandlerOf(t), calls[thr[t].call].rec, heap, bufs[thr[t].buf].data)
       IN  /\ heap' = m.heap
           /\ bufs' = [bufs EXCEPT ![thr[t].buf] = Grown(@, m.buf)]
           /\ calls' = [calls EXCEPT ![thr[t].call].stores = m.stores]
    /\ thr' = [thr EXCEPT ![t].pc = "formatted"]
    /\ UNCHANGED <<handlers, last, nderived, mus, pool, wlog, varsSeq, varsLog>>

\* Handle, lines 337-339: an empty buffer; the call returns nil
ReturnEmpty(t) ==
    /\ thr[t].pc = "formatted"
    /\ Len(bufs[thr[t].buf].data) = 0
    /\ thr' = [thr EXCEPT ![t].pc = "free"]
    /\ calls' = [calls EXCEPT ![thr[t].call].ret = "nil"]
    /\ UNCHANGED <<varsDerive, mus, bufs, pool, wlog, varsSeq, varsLog>>

\* Handle, line 340: the last byte becomes the newline
EndLine(t) ==
    /\ thr[t].pc = "formatted"
    /\ Len(bufs[thr[t].buf].data) # 0
    /\ bufs' = [bufs EXCEPT ![thr[t].buf].data = endLine(@)]
    /\ calls' = [calls EXCEPT ![thr[t].call].line = bufs'[thr[t].buf].data]
    /\ thr' = [thr EXCEPT ![t].pc = "lock"]
    /\ UNCHANGED <<varsDerive, mus, pool, wlog, varsSeq, varsLog>>

\* Handle, lines 343-344: h.mu.Lock(); defer h.mu.Unlock()
Lock(t) ==
    /\ thr[t].pc = "lock"
    /\ mus[HandlerOf(t).mu] = 0
    /\ mus' = [mus EXCEPT ![HandlerOf(t).mu] = t]
    /\ thr' = [thr EXCEPT ![t].pc = "write"]
    /\ calls' = [calls EXCEPT ![thr[t].call].locked = TRUE]
    /\ UNCHANGED <<varsDerive, bufs, pool, wlog, varsSeq, varsLog>>

\* where Handle goes when Write has returned: to its return
afterWriteRetry(ok) == IF ok THEN "unlock" ELSE "write"

afterWrite(ok) == "unlock"

\* Handle, lines 346-347: h.w.Write(*buf) returns, with or without an error
Write(t, ok) ==
    /\ thr[t].pc = "write"
    /\ wlog' = Append(wlog, [call |-> thr[t].call, w |-> HandlerOf(t).w,
                             data |-> bufs[thr[t].buf].data, ok |-> ok])
    /\ calls' = [calls EXCEPT ![thr[t].call].nwrites = @ + 1,
                              ![thr[t].call].ret = IF ok THEN "nil" ELSE "EIO"]
    /\ thr' = [thr EXCEPT ![t].pc = afterWrite(ok), ![t].err = IF ok THEN "nil" ELSE "EIO"]
    /\ UNCHANGED <<varsDerive, mus, bufs, pool, varsSeq, varsLog>>

\* the deferred h.mu.Unlock() as it would be if it ran on success only
unlockOnSuccess(ms, m, err) == IF err = "nil" THEN [ms EXCEPT ![m] = 0] ELSE ms

\* the deferred h.mu.Unlock() of line 344
deferredUnlock(ms, m, err) == [ms EXCEPT ![m] = 0]

Unlock(t) ==
    /\ thr[t].pc = "unlock"
    /\ mus' = deferredUnlock(mus, HandlerOf(t).mu, thr[t].err)
    /\ thr' = [thr EXCEPT ![t].pc = "free"]
    /\ UNCHANGED <<varsDerive, bufs, pool, wlog, calls, varsSeq, varsLog>>

\* the deferred buf.Free() of line 265, and the return
Return(t) ==
    /\ thr[t].pc = "free"
    /\ LET f == Free(bufs, pool, thr[t].buf)
       IN  /\ bufs' = f.bufs
           /\ pool' = f.pool
    /\ calls' = [calls EXCEPT ![thr[t].call].done = TRUE]
    /\ thr' = [thr EXCEPT ![t] = [Idle EXCEPT !.call = thr[t].call]]
    /\ UNCHANGED <<varsDerive, mus, wlog, varsSeq, varsLog>>

\* the Handlers the threads log to: the last of the chain and its parent
Logged == {i \in 1..Len(handlers) : i >= Len(handlers) - 1}

NextConc ==
    \/ \E t \in Threads, i \in Logged, r \in ConcRecords : Begin(t, i, r)
    \/ \E t \in Threads : Format(t)
    \/ \E t \in Threads : ReturnEmpty(t)
    \/ \E t \in Threads : EndLine(t)
    \/ \E t \in Threads : Lock(t)
    \/ \E t \in Threads, ok \in BOOLEAN : Write(t, ok)
    \/ \E t \in Threads : Unlock(t)
    \/ \E t \in Threads : Return(t)

SpecConc == InitConc /\ [][NextConc]_vars


(* ------------------------------------------------------------------ *)
(* Handle as one call, and the adapter operations                      *)
(* ------------------------------------------------------------------ *)
\* Handle from its empty-buffer test on, m the formatter's state after the
\* attributes: nothing rendered returns nil without a Write; otherwise the
\* newline is appended and the buffer is written once, the Write's error
\* being the result.
writeLine(m, ok) ==
    IF Len(m.buf) = 0
    THEN [heap |-> m.heap, raw |-> m.buf, buf |-> m.buf, writes |-> <<>>, err |-> "nil"]
    ELSE [heap |-> m.heap, raw |-> m.buf, buf |-> endLine(m.buf),
          writes |-> <<endLine(m.buf)>>, err |-> IF ok THEN "nil" ELSE "EIO"]

\* Handle(ctx, r) on Handler h run to its return, the buffer holding buf when
\* acquired and the destination's Write succeeding or not: the heap after,
\* the buffer before (raw) and after (buf) line 340, the Write calls made,
\* the error returned.
Handle(h, r, hp, buf, ok) == writeLine(formatRecord(h, r, hp, buf), ok)

\* time.Now(), and the pc runtime.Callers(4, pcs[:]) stores
Now == 1
CallerPC == 1

\* the zero slog.Record
ZeroRecord == Record(0, 0, <<>>, 0, <<>>)

\* the record Log builds for a kratos level; a level outside the switch
\* leaves r the zero Record
LogRecord(level, keyvals) ==
    CASE level = KLevelDebug -> Record(Now, LevelDebug, <<>>, CallerPC, keyvals)
      [] level = KLevelInfo -> Record(Now, LevelInfo, <<>>, CallerPC, keyvals)
      [] level = KLevelWarn -> Record(Now, LevelWarn, <<>>, CallerPC, keyvals)
      [] level = KLevelError -> Record(Now, LevelError, <<>>, CallerPC, keyvals)
      [] level = KLevelFatal -> Record(Now, LevelError, <<>>, CallerPC, keyvals)
      [] OTHER -> ZeroRecord

\* the records Info, Warn and Error build: each is made with slog.LevelInfo
InfoRecord(msg, args) ==
    Record(Now, LevelInfo, <<>>, CallerPC, <<Attr(MessageKey, StringValue(msg))>> \o args)

WarnRecord(msg, args) ==
    Record(Now, LevelInfo, <<>>, CallerPC, <<Attr(MessageKey, StringValue(msg))>> \o args)

ErrorRecord(msg, args) ==
    Record(Now, LevelInfo, <<>>, CallerPC, <<Attr(MessageKey, StringValue(msg))>> \o args)

\* the digits of n, at least three of them
Pad3(n) == IF n < 10 THEN <<"0", "0">> \o Itoa(n) ELSE IF n < 100 THEN <<"0">> \o Itoa(n) ELSE Itoa(n)

\* fmt.Sprintf("%.3fms", float64(ns)/1e6), for ns a multiple of 1000
FormatMs(ns) == Itoa(ns \div 1000000) \o <<".">> \o Pad3((ns % 1000000) \div 1000) \o <<"m", "s">>

\* the record Trace builds
TraceRecord(elapsed, sql, rows, hasErr, errMsg) ==
    Record(Now, LevelInfo, <<>>, CallerPC,
           (IF hasErr THEN <<Err(FALSE, errMsg)>> ELSE <<>>)
           \o <<Attr(TimeKey, StringValue(FormatMs(elapsed))),
                Attr(<<"s", "q", "l">>, StringValue(IF rows = -1 THEN <<"-">> ELSE sql))>>)

\* what Log hands back of the error Handle returned, as it would be if Log
\* dropped it
LogReturnsNil(err) == "nil"

\* Log: return h.Handle(context.TODO(), r)
LogReturns(err) == err

\* Info, Warn, Error, Trace: _ = h.Handle(ctx, r); the methods have no result
Discards(err) == "void"

(* ------------------------------------------------------------------ *)
(* Sequential runs: calls on one Handler, one after the other          *)
(* ------------------------------------------------------------------ *)
\* the Options a sequential run constructs its first Handler with
SeqOptions ==
    {NilOptions}
    \cup {Options(lvl = LevelDebug, TRUE, lvl, rep, "", nc, 0) :
            lvl \in {LevelDebug, LevelWarn}, rep \in Hooks, nc \in BOOLEAN}

\* the attribute lists of the records logged
SeqAttrLists ==
    {<<>>,
     <<Attr(<<"k">>, StringValue(<<"v">>)), Attr(<<"q">>, StringValue(<<"a", " ", "b">>))>>,
     <<Attr(<<"g">>, GroupValue(<<Attr(<<"c">>, Int64Value(1))>>))>>,
     <<Attr(<<"k">>, NilValue), Attr(<<"e">>, GroupValue(<<>>)), Attr(<<"n">>, Int64Value(2))>>,
     <<Err(FALSE, <<"b", "a", "d">>)>>,
     <<Attr(<<"m">>, MarshalerValue(<<>>, TRUE)), Attr(<<"b">>, BoolValue(TRUE))>>}

SeqMessages == {<<>>, <<"h", "i">>, <<"a", " ", "b">>}

SeqRecords ==
    {Record(t, l, m, CallerPC, as) :
        t \in {0, Now}, l \in {LevelInfo, LevelWarn + 2}, m \in SeqMessages, as \in SeqAttrLists}

\* the derivations between NewHandler and the calls of a run
Setup(opts, k) ==
    LET c0 == Derived(<<NewHandler(TheWriter, opts, 1)>>, <<>>, 1, {})
        c1 == WithGroup(c0.handlers, c0.heap, c0.res, ChainName)
        c2 == WithAttrs(c1.handlers, c1.heap, c1.res,
                        <<Attr(<<"k">>, StringValue(<<"v">>))>>)
        c3 == WithAttrs(c0.handlers, c0.heap, c0.res,
                        <<Attr(<<"p">>, NilValue), Attr(<<"n">>, Int64Value(2))>>)
    IN  CASE k = 0 -> c0 [] k = 1 -> c2 [] OTHER -> c3

Receivers == {"Handler", "Logger"}

KeyVals == {<<>>, <<Attr(MessageKey, StringValue(<<"h", "i">>))>>}

\* A call: op on receiver recv (a *Handler, or a *Logger, whose methods have
\* the same bodies), with the kratos level of Log, the record of Handle, the
\* key-values of Log, the message of Info, Warn and Error, the rows and the
\* error of Trace, and whether the destination's Write succeeds.
Request(op, recv, level, r, kv, rows, hasErr, ok) ==
    [op |-> op, recv |-> recv, level |-> level, r |-> r, kv |-> kv, msg |-> <<"h", "i">>,
     rows |-> rows, hasErr |-> hasErr, ok |-> ok]

Requests ==
    {Request("Handle", "Handler", 0, r, <<>>, 0, FALSE, ok) : r \in SeqRecords, ok \in BOOLEAN}
    \cup {Request("Log", recv, level, ZeroRecord, kv, 0, FALSE, ok) :
            recv \in Receivers, level \in KLevelDebug..KLevelFatal, kv \in KeyVals, ok \in BOOLEAN}
    \cup {Request(op, recv, 0, ZeroRecord, <<>>, 0, FALSE, ok) :
            op \in {"Info", "Warn", "Error"}, recv \in Receivers, ok \in BOOLEAN}
    \cup {Request("Trace", recv, 0, ZeroRecord, <<>>, rows, hasErr, ok) :
            recv \in Receivers, rows \in {-1, 3}, hasErr \in BOOLEAN, ok \in BOOLEAN}

InitSeq ==
    /\ \E opts \in SeqOptions, k \in 0..2 :
            /\ handlers = Setup(opts, k).handlers
            /\ heap = Setup(opts, k).heap
    /\ last = NoCall
    /\ nderived = 0
    /\ mus = [m \in 1..Len(handlers) |-> 0]
    /\ thr = [t \in Threads |-> Idle]
    /\ bufs = [b \in Buffers |-> NoBuffer]
    /\ pool = {}
    /\ wlog = <<>>
    /\ calls = <<>>
    /\ req \in Requests
    /\ lastop = NoOp
    /\ InitLogIdle

\* the Handler the call of a sequential run is made on
Cur == Len(handlers)

\* The call req at severity sev: when gated it tests Enabled(gate) first; it
\* passes r to Handle and hands back, or not, Handle's error.
SeqCall(sev, gated, gate, r, surfaces) ==
    LET h == handlers[Cur]
    IN  /\ lastop.op = "none"
        /\ IF gated /\ ~Enabled(h, gate)
           THEN /\ lastop' = [op |-> req.op, recv |-> req.recv, sev |-> sev, rec |-> r,
                              called |-> FALSE, raw |-> <<>>, writes |-> <<>>, ok |-> req.ok,
                              err |-> "nil", ret |-> Discards("nil")]
                /\ UNCHANGED <<varsDerive, varsConc, req, varsLog>>
           ELSE \E nb \in newBuffer(bufs, pool) :
                 \E res \in {Handle(h, r, heap, nb.bufs[nb.id].data, req.ok)} :
                   LET f == Free([nb.bufs EXCEPT ![nb.id] = Grown(@, res.buf)], nb.pool, nb.id)
                   IN  /\ heap' = res.heap
                       /\ bufs' = f.bufs
                       /\ pool' = f.pool
                       /\ lastop' = [op |-> req.op, recv |-> req.recv, sev |-> sev, rec |-> r,
                                     called |-> TRUE, raw |-> res.raw, writes |-> res.writes,
                                     ok |-> req.ok, err |-> res.err,
                                     ret |-> IF surfaces THEN LogReturns(res.err)
                                             ELSE Discards(res.err)]
                       /\ UNCHANGED <<handlers, last, nderived, mus, thr, wlog, calls, req, varsLog>>

\* the slog level a kratos level stands for
SevOf(level) ==
    CASE level = KLevelDebug -> LevelDebug
      [] level = KLevelInfo -> LevelInfo
      [] level = KLevelWarn -> LevelWarn
      [] OTHER -> LevelError

HandleCall ==
    /\ req.op = "Handle"
    /\ SeqCall(req.r.level, FALSE, req.r.level, req.r, TRUE)

LogCall ==
    /\ req.op = "Log"
    /\ SeqCall(SevOf(req.level), FALSE, SevOf(req.level), LogRecord(req.level, req.kv), TRUE)

InfoCall ==
    /\ req.op = "Info"
    /\ SeqCall(LevelInfo, TRUE, LevelInfo, InfoRecord(req.msg, <<>>), FALSE)

WarnCall ==
    /\ req.op = "Warn"
    /\ SeqCall(LevelWarn, TRUE, LevelWarn, WarnRecord(req.msg, <<>>), FALSE)

ErrorCall ==
    /\ req.op = "Error"
    /\ SeqCall(LevelError, TRUE, LevelError, ErrorRecord(req.msg, <<>>), FALSE)

TraceCall ==
    /\ req.op = "Trace"
    /\ SeqCall(LevelInfo, TRUE, LevelInfo,
               TraceRecord(12345000, <<"S", " ", "1">>, req.rows, req.hasErr, <<"b", "a", "d">>),
               FALSE)

NextSeq ==
    \/ HandleCall
    \/ LogCall
    \/ InfoCall
    \/ WarnCall
    \/ ErrorCall
    \/ TraceCall

SpecSeq == InitSeq /\ [][NextSeq]_vars

(* ------------------------------------------------------------------ *)
(* Claims about concurrent Handle calls                                *)
(* ------------------------------------------------------------------ *)
\* the threads that are inside the destination's Write
InWrite(w) == {t \in Threads : thr[t].pc = "write" /\ HandlerOf(t).w = w}

\* C1: of the Handle calls on Handlers that share one destination writer, at
\* most one is inside the destination's Write at any time.
C1_OneCallInsideWrite == Cardinality(InWrite(TheWriter)) <= 1

\* the heap cells of the backing arrays that Handlers' groups slices refer to
HandlerCells ==
    UNION {{<<handlers[i].groups.arr, k>> : k \in 1..handlers[i].groups.cap} :
            i \in 1..Len(handlers)}

\* C2: the formatting phase of a Handle call stores into no backing array of
\* a Handler's groups slice.
C2_FormattingStoresNothingShared ==
    \A c \in 1..Len(calls) : calls[c].stores \cap HandlerCells = {}

\* the Write calls the destination received from call c
WritesOf(c) == {k \in 1..Len(wlog) : wlog[k].call = c}

\* C5: a Handle call makes at most one Write; once it has returned it has
\* made exactly one, of the whole buffer, when the buffer was not empty, and
\* none, returning nil, when it was; a failed Write is not repeated.
C5_AtMostOneWrite ==
    \A c \in 1..Len(calls) :
        /\ Cardinality(WritesOf(c)) <= 1
        /\ calls[c].nwrites = Cardinality(WritesOf(c))
        /\ \A k \in WritesOf(c) : wlog[k].data = calls[c].line /\ wlog[k].data # <<>>
        /\ calls[c].done =>
            /\ calls[c].line # <<>> => Cardinality(WritesOf(c)) = 1
            /\ calls[c].line = <<>> => Cardinality(WritesOf(c)) = 0 /\ calls[c].ret = "nil"

\* one call has returned after a failed Write, another after rendering nothing
C5_Witness ==
    /\ \E c \in 1..Len(calls) : calls[c].done /\ calls[c].ret = "EIO" /\ calls[c].nwrites = 1
    /\ \E c \in 1..Len(calls) : calls[c].done /\ calls[c].line = <<>> /\ calls[c].nwrites = 0

\* the threads holding buffer b
Holders(b) == {t \in Threads : thr[t].pc # "idle" /\ thr[t].buf = b}

\* C6: Handle returns the error of the destination's Write, and when it
\* returns, after a Write that failed or not, it holds neither the lock nor
\* its buffer: a lock is held only by a call between its Lock and its
\* Unlock, and a buffer no call holds is in the pool, emptied, if it is
\* within maxBufferSize, and dropped otherwise.
C6_ReleasedOnReturn ==
    /\ \A c \in 1..Len(calls) : calls[c].done =>
            \A k \in WritesOf(c) : calls[c].ret = IF wlog[k].ok THEN "nil" ELSE "EIO"
    /\ \A m \in DOMAIN mus : mus[m] # 0 =>
            /\ thr[mus[m]].pc \in {"write", "unlock"}
            /\ HandlerOf(mus[m]).mu = m
    /\ \A b \in DOMAIN bufs : Holders(b) = {} /\ bufs[b].cap # 0 =>
            b \in pool /\ bufs[b].data = <<>> /\ bufs[b].cap <= maxBufferSize
    /\ \A b \in pool : Holders(b) = {}

\* a call took the lock of a Handler after an earlier call on that Handler
\* had returned the error of its failed Write
C6_Witness ==
    \E c, d \in 1..Len(calls) :
        /\ c < d
        /\ calls[c].h = calls[d].h
        /\ calls[c].done /\ calls[c].ret = "EIO"
        /\ calls[d].locked

(* ------------------------------------------------------------------ *)
(* Claims about derivation                                             *)
(* ------------------------------------------------------------------ *)
\* C3: deriving a Handler from some Handler never changes the attribute
\* prefix, the group prefix or the group-name stack of any Handler that
\* existed before the call.
C3_DerivationLeavesOthersUnchanged ==
    last.op # "none" =>
        \A i \in 1..Len(last.before) : View(handlers, heap, i) = last.before[i]

\* C4: WithAttrs and WithGroup leave their receiver as it was (prefixes,
\* group stack, writer, configuration), and a derivation that is not a no-op
\* returns a Handler that did not exist before and has the receiver's writer.
C4_ReceiverUnchanged ==
    last.op # "none" =>
        /\ View(handlers, heap, last.recv) = last.before[last.recv]
        /\ handlers[last.recv].groups.len = Len(last.before[last.recv].groups)
        /\ last.res # last.recv =>
            /\ last.res \notin 1..Len(last.before)
            /\ last.res \in 1..Len(handlers)
            /\ handlers[last.res].w = handlers[last.recv].w

\* a derivation has just stored into the backing array its receiver still uses
C4_Witness ==
    /\ last.op \in {"WithAttrs", "WithGroup"}
    /\ last.res # last.recv
    /\ \E c \in last.stores : c[1] = handlers[last.recv].groups.arr

(* ------------------------------------------------------------------ *)
(* Claims about the adapter operations and the line                    *)
(* ------------------------------------------------------------------ *)
AdapterOps == {"Log", "Info", "Warn", "Error", "Trace"}

\* the Handler the call of the run was made on
Callee == handlers[Cur]

\* C7: a write failure of the destination during an adapter operation is
\* handed to the caller of that operation: the operation returns the error
\* the destination's Write returned.
C7_WriteFailureSurfaced ==
    lastop.op \in AdapterOps /\ lastop.writes # <<>> /\ ~lastop.ok => lastop.ret = "EIO"

\* C7: Log returns what Handle returned, which is the error of the
\* destination's Write when a line was written and that Write failed, and
\* nil otherwise; Info, Warn, Error and Trace have no result, so the error of
\* a failed Write never reaches their caller.
C7_LogSurfacesOthersDiscard ==
    lastop.op \in AdapterOps /\ lastop.called =>
        /\ lastop.err = IF lastop.writes # <<>> /\ ~lastop.ok THEN "EIO" ELSE "nil"
        /\ lastop.op = "Log" => lastop.ret = lastop.err
        /\ lastop.op # "Log" => lastop.ret = "void"

\* Log has returned the error of a Write that failed
C7_Witness ==
    /\ lastop.op = "Log"
    /\ lastop.writes # <<>>
    /\ ~lastop.ok
    /\ lastop.ret = "EIO"

\* word occurs in line
Contains(line, word) ==
    \E i \in 0..(Len(line) - Len(word)) : SubSeq(line, i + 1, i + Len(word)) = word

\* the name of the band a level lies in
BandWord(level) ==
    CASE level < LevelInfo -> <<"D", "E", "B", "U", "G">>
      [] level >= LevelInfo /\ level < LevelWarn -> <<"I", "N", "F", "O">>
      [] level >= LevelWarn /\ level < LevelError -> <<"W", "A", "R", "N">>
      [] OTHER -> <<"E", "R", "R", "O", "R">>

\* the hooks that leave the level field in the line
KeepsLevel == {"nil", "identity", "dropTime"}

\* C8: the line an adapter operation writes is in the band of the
\* operation: INFO for Info, WARN for Warn, ERROR for Error, and for Log the
\* band of the level passed, Fatal being ERROR.
C8_LineInBandOfOperation ==
    /\ lastop.op \in {"Log", "Info", "Warn", "Error"}
    /\ lastop.writes # <<>>
    /\ Callee.replaceAttr \in KeepsLevel
    => Contains(lastop.writes[1], BandWord(lastop.sev))

\* the hooks that return an empty key for every attribute
EmptiesKey == {"clearKey", "dropAll"}

\* C9: under a hook that returns an empty key for every attribute nothing is
\* emitted: no built-in field, no attribute of the record, no attribute
\* bound to the Handler, whatever value the returned attribute carries.
C9_EmptyKeySuppressesEveryField ==
    lastop.op # "none" /\ lastop.called /\ Callee.replaceAttr \in EmptiesKey => lastop.raw = <<>>

\* the attributes of a list that are not groups, those of its groups included
RECURSIVE Leaves(_)
Leaves(attrs) ==
    IF attrs = <<>> THEN <<>>
    ELSE IF Head(attrs).val.kind = "Group" THEN Leaves(Head(attrs).val.attrs) \o Leaves(Tail(attrs))
    ELSE <<Head(attrs)>> \o Leaves(Tail(attrs))

\* the separators in a buffer
Separators(buf) == Cardinality({i \in 1..Len(buf) : buf[i] = SEP})

\* the leaves whose value is not the nil value
Valued(attrs) == Cardinality({i \in 1..Len(Leaves(attrs)) : Leaves(attrs)[i].val # NilValue})

\* C9: under a hook that returns an empty key for every attribute, the
\* time, level, source and message fields are suppressed whatever the value
\* returned, so the line starts with the Handler's attribute prefix; an
\* attribute of the record is suppressed only when the returned attribute is
\* the zero Attr (empty key and nil value): every leaf attribute returned
\* with an empty key and a value is emitted, with its separator.
C9_SuppressedOnlyWhenZeroAttr ==
    lastop.op # "none" /\ lastop.called /\ Callee.replaceAttr \in EmptiesKey =>
        LET pre == Callee.attrsPrefix
            rest == SubSeq(lastop.raw, Len(pre) + 1, Len(lastop.raw))
        IN  /\ Len(lastop.raw) >= Len(pre)
            /\ SubSeq(lastop.raw, 1, Len(pre)) = pre
            /\ Separators(rest) = IF Callee.replaceAttr = "clearKey"
                                  THEN Valued(lastop.rec.attrs) ELSE 0
            /\ Callee.replaceAttr = "dropAll" => lastop.raw = <<>> /\ lastop.writes = <<>>

\* a record with a time, an attribute with a value and one without went
\* through a hook that cleared every key, and a line was written
C9_Witness ==
    /\ lastop.op # "none"
    /\ lastop.called
    /\ Callee.replaceAttr = "clearKey"
    /\ lastop.rec.time # 0
    /\ Valued(lastop.rec.attrs) > 0
    /\ Valued(lastop.rec.attrs) < Len(Leaves(lastop.rec.attrs))
    /\ lastop.writes # <<>>

\* C10: in the line Handle writes every emitted field is followed by
\* exactly one separator: the buffer ends in a separator, which the newline
\* replaces, no two separators are adjacent, none starts the line, and the
\* line has one newline, at its end.
C10_SingleSeparators ==
    lastop.op # "none" /\ lastop.called /\ lastop.writes # <<>> =>
        LET raw == lastop.raw
            line == lastop.writes[1]
        IN  /\ raw[Len(raw)] = SEP
            /\ raw[1] # SEP
            /\ \A i \in 1..(Len(raw) - 1) : ~(raw[i] = SEP /\ raw[i + 1] = SEP)
            /\ {i \in 1..Len(line) : line[i] = NL} = {Len(line)}
            /\ SubSeq(line, 1, Len(line) - 1) = SubSeq(raw, 1, Len(raw) - 1)

(* ------------------------------------------------------------------ *)
(* Level runs: appendLevel applied to one level                        *)
(* ------------------------------------------------------------------ *)
\* the levels rendered
Levels == (LevelDebug - MaxLevelOffset)..(LevelError + MaxLevelOffset)

InitLevel ==
    /\ \E nc \in BOOLEAN :
            handlers = <<NewHandler(TheWriter, Options(FALSE, FALSE, 0, "nil", "", nc, 0), 1)>>
    /\ heap = <<>>
    /\ last = NoCall
    /\ nderived = 0
    /\ InitConcIdle
    /\ req \in {[op |-> "appendLevel", level |-> l] : l \in Levels}
    /\ lastop = NoOp
    /\ InitLogIdle

\* h.appendLevel(buf, level) on an empty buffer
AppendLevelCall ==
    /\ req.op = "appendLevel"
    /\ lastop.op = "none"
    /\ lastop' = [op |-> "appendLevel", level |-> req.level,
                  out |-> appendLevel(handlers[1], req.level)]
    /\ UNCHANGED <<varsDerive, varsConc, req, varsLog>>

NextLevel == AppendLevelCall

SpecLevel == InitLevel /\ [][NextLevel]_vars

(* ------------------------------------------------------------------ *)
(* Claims about the level field                                        *)
(* ------------------------------------------------------------------ *)
\* the elements of a buffer that are not ANSI codes
RECURSIVE Plain(_)
Plain(buf) ==
    IF buf = <<>> THEN <<>>
    ELSE IF Head(buf) \in AnsiCodes THEN Plain(Tail(buf))
    ELSE <<Head(buf)>> \o Plain(Tail(buf))

\* the canonical level of the band a level lies in
BandBase(level) ==
    CASE level < LevelInfo -> LevelDebug
      [] level >= LevelInfo /\ level < LevelWarn -> LevelInfo
      [] level >= LevelWarn /\ level < LevelError -> LevelWarn
      [] OTHER -> LevelError

\* an offset in signed decimal: nothing for 0, '+' before a positive one
SignedOffset(d) ==
    IF d = 0 THEN <<>>
    ELSE IF d > 0 THEN <<"+">> \o NatString(d)
    ELSE <<"-">> \o NatString(0 - d)

\* C12: the text rendered for a level is the name of its band followed by
\* the signed decimal offset of the level from the band's canonical level,
\* nothing when the offset is 0: Warn renders WARN, Warn+2 WARN+2, Error+1
\* ERROR+1, Debug-2 DEBUG-2.
C12_BandAndSignedOffset ==
    lastop.op = "appendLevel" =>
        LET l == lastop.level
            txt == Plain(lastop.out)
        IN  /\ txt = BandWord(l) \o SignedOffset(l - BandBase(l))
            /\ l \in {LevelDebug, LevelInfo, LevelWarn, LevelError} => txt = BandWord(l)
            /\ l = LevelWarn + 2 => txt = <<"W", "A", "R", "N", "+", "2">>
            /\ l = LevelError + 1 => txt = <<"E", "R", "R", "O", "R", "+", "1">>
            /\ l = LevelDebug - 2 => txt = <<"D", "E", "B", "U", "G", "-", "2">>
            /\ l = LevelInfo - 1 => txt = <<"D", "E", "B", "U", "G", "+", "3">>

\* a level one above Error has been rendered, in colour
C12_Witness ==
    /\ lastop.op = "appendLevel"
    /\ lastop.level = LevelError + 1
    /\ ~handlers[1].noColor
    /\ Len(lastop.out) > Len(Plain(lastop.out))

(* ------------------------------------------------------------------ *)
(* Claims about the level gate                                         *)
(* ------------------------------------------------------------------ *)
\* C14: an adapter operation (Log at any severity, Info, Warn, Error,
\* Trace) writes a line only if its severity is at least the Handler's
\* minimum level, that is only if Enabled is true for it.
C14_WrittenOnlyIfEnabled ==
    lastop.op \in AdapterOps /\ lastop.writes # <<>> => lastop.sev >= Callee.level

(* ------------------------------------------------------------------ *)
(* Pre-rendering runs: WithAttrs(A) then Handle(B), and Handle(A, B)   *)
(* ------------------------------------------------------------------ *)
\* the Handlers a pre-rendering run starts from: its receiver is the last
PreSetups ==
    {Setup(opts, k) : opts \in SeqOptions, k \in 0..2}
    \cup {Chain(opts, d) : opts \in {NilOptions, DeriveOptions}, d \in 1..MaxChain}

InitPre ==
    /\ \E c \in PreSetups :
            /\ handlers = c.handlers
            /\ heap = c.heap
    /\ last = NoCall
    /\ nderived = 0
    /\ InitConcIdle
    /\ req \in {[op |-> "Pre", A |-> as, B |-> bs, time |-> t, level |-> LevelInfo, msg |-> m] :
                    as \in SeqAttrLists, bs \in SeqAttrLists, t \in {0, Now}, m \in SeqMessages}
    /\ lastop = NoOp
    /\ InitLogIdle

\* h.WithAttrs(A) on the run's receiver
PreWithAttrs ==
    /\ req.op = "Pre"
    /\ last.op = "none"
    /\ LET d == WithAttrs(handlers, heap, Cur, req.A)
       IN  /\ handlers' = d.handlers
           /\ heap' = d.heap
           /\ nderived' = IF d.res # Cur THEN nderived + 1 ELSE nderived
           /\ last' = [op |-> "WithAttrs", recv |-> Cur, res |-> d.res,
                       before |-> Views(handlers, heap), stores |-> d.stores]
    /\ UNCHANGED <<varsConc, varsSeq, varsLog>>

\* the calls of a pre-rendering run that have been made by way of via
Made(via) == {c \in 1..Len(calls) : calls[c].via = via}

\* Handle(ctx, r) on Handler i, run to its return, in a pre-rendering run
PreHandle(via, i, r) ==
    /\ last.op = "WithAttrs"
    /\ Made(via) = {}
    /\ \E nb \in newBuffer(bufs, pool) :
         \E res \in {Handle(handlers[i], r, heap, nb.bufs[nb.id].data, TRUE)} :
           LET f == Free([nb.bufs EXCEPT ![nb.id] = Grown(@, res.buf)], nb.pool, nb.id)
           IN  /\ heap' = res.heap
               /\ bufs' = f.bufs
               /\ pool' = f.pool
               /\ calls' = Append(calls, [via |-> via, h |-> i, rec |-> r, raw |-> res.raw,
                                          writes |-> res.writes, ret |-> res.err])
               /\ wlog' = wlog \o [k \in 1..Len(res.writes) |->
                                     [call |-> Len(calls) + 1, w |-> handlers[i].w,
                                      data |-> res.writes[k], ok |-> TRUE]]
    /\ UNCHANGED <<handlers, last, nderived, mus, thr, varsSeq, varsLog>>

\* h.WithAttrs(A).Handle(ctx, r) for r with the attributes B
HandleDerived ==
    /\ last.op = "WithAttrs"
    /\ PreHandle("derived", last.res, Record(req.time, req.level, req.msg, CallerPC, req.B))

\* h.Handle(ctx, r) for r with the attributes A followed by B
HandleParent ==
    /\ last.op = "WithAttrs"
    /\ PreHandle("parent", last.recv, Record(req.time, req.level, req.msg, CallerPC, req.A \o req.B))

NextPre ==
    \/ PreWithAttrs
    \/ HandleDerived
    \/ HandleParent

SpecPre == InitPre /\ [][NextPre]_vars

(* ------------------------------------------------------------------ *)
(* Claims about pre-rendering                                          *)
(* ------------------------------------------------------------------ *)
\* C11: what h.WithAttrs(A).Handle writes for a record with the attributes
\* B is what h.Handle writes for the record with the attributes A followed
\* by B, whichever call is made first; and the attribute prefix of the
\* Handler WithAttrs returns is the receiver's prefix followed by the
\* rendering of A under the receiver's group prefix.
C11_PreRenderingEquivalent ==
    last.op = "WithAttrs" /\ req.op = "Pre" =>
        /\ \A c \in Made("derived"), d \in Made("parent") :
                /\ calls[c].writes = calls[d].writes
                /\ calls[c].ret = calls[d].ret
        /\ LET h == last.before[last.recv]
               rendered == SubSeq(handlers[last.res].attrsPrefix, Len(h.attrsPrefix) + 1,
                                  Len(handlers[last.res].attrsPrefix))
           IN  /\ SubSeq(handlers[last.res].attrsPrefix, 1, Len(h.attrsPrefix)) = h.attrsPrefix
               /\ \A d \in Made("parent") :
                    LET own == formatRecord(handlers[last.recv],
                                            [calls[d].rec EXCEPT !.attrs = <<>>], heap, <<>>).buf
                        all == calls[d].raw
                    IN  SubSeq(all, Len(own) + 1, Len(own) + Len(rendered)) = rendered

\* both calls were made on a Handler that has a group prefix and bound
\* attributes, for lists A and B that hold a group and a plain attribute,
\* and both wrote a line
C11_Witness ==
    /\ last.op = "WithAttrs"
    /\ req.op = "Pre"
    /\ last.res # last.recv
    /\ handlers[last.recv].groupPrefix # <<>>
    /\ handlers[last.recv].attrsPrefix # <<>>
    /\ \E i \in 1..Len(req.A) : req.A[i].val.kind = "Group"
    /\ req.B # <<>>
    /\ Made("derived") # {} /\ Made("parent") # {}
    /\ \A c \in Made("derived") : calls[c].writes # <<>>

(* ------------------------------------------------------------------ *)
(* Pool runs: threads calling Handle and WithAttrs                     *)
(* ------------------------------------------------------------------ *)
\* the attribute lists the threads pass to WithAttrs
PoolAttrLists == AttrLists \ {<<>>}

InitPool ==
    /\ \E opts \in ConcOptions :
            /\ handlers = Chain(opts, 1).handlers
            /\ heap = Chain(opts, 1).heap
    /\ last = NoCall
    /\ nderived = 0
    /\ mus = [m \in 1..Len(handlers) |-> 0]
    /\ thr = [t \in Threads |-> Idle]
    /\ bufs = [b \in Buffers |-> NoBuffer]
    /\ pool = {}
    /\ wlog = <<>>
    /\ calls = <<>>
    /\ req = NoOp
    /\ lastop = NoOp
    /\ InitLogIdle

\* WithAttrs, lines 353-362, for a list that is not empty: h2 := h.clone();
\* buf := newBuffer(); defer buf.Free()
WithBegin(t, i, attrs) ==
    /\ thr[t].pc = "idle"
    /\ Len(calls) < MaxCalls
    /\ Len(attrs) # 0
    /\ \E nb \in newBuffer(bufs, pool) :
            /\ bufs' = nb.bufs
            /\ pool' = nb.pool
            /\ thr' = [thr EXCEPT ![t] = [pc |-> "render", call |-> Len(calls) + 1,
                                          buf |-> nb.id, err |-> "nil"]]
    /\ calls' = Append(calls, [op |-> "WithAttrs", t |-> t, h |-> i, attrs |-> attrs,
                               got |-> bufs'[thr'[t].buf].data, stores |-> {},
                               res |-> 0, done |-> FALSE])
    /\ UNCHANGED <<varsDerive, mus, wlog, varsSeq, varsLog>>

\* WithAttrs, lines 365-367: the attributes are rendered into the buffer
WithRender(t) ==
    /\ thr[t].pc = "render"
    /\ LET h == HandlerOf(t)
           m == appendAttrs(Fmt(bufs[thr[t].buf].data, heap, {}), h,
                            calls[thr[t].call].attrs, h.groupPrefix, h.groups)
       IN  /\ heap' = m.heap
           /\ bufs' = [bufs EXCEPT ![thr[t].buf] = Grown(@, m.buf)]
           /\ calls' = [calls EXCEPT ![thr[t].call].stores = m.stores]
    /\ thr' = [thr EXCEPT ![t].pc = "rendered"]
    /\ UNCHANGED <<handlers, last, nderived, mus, pool, wlog, varsSeq, varsLog>>

\* WithAttrs, lines 370-373: h2.attrsPrefix = h.attrsPrefix + string(*buf);
\* return h2, and the deferred buf.Free()
WithReturn(t) ==
    /\ thr[t].pc = "rendered"
    /\ LET h == HandlerOf(t)
           h2 == [clone(h, Len(handlers) + 1) EXCEPT
                    !.attrsPrefix = h.attrsPrefix \o bufs[thr[t].buf].data]
           f == Free(bufs, pool, thr[t].buf)
       IN  /\ handlers' = Append(handlers, h2)
           /\ mus' = Append(mus, 0)
           /\ bufs' = f.bufs
           /\ pool' = f.pool
    /\ nderived' = nderived + 1
    /\ calls' = [calls EXCEPT ![thr[t].call].res = Len(handlers) + 1,
                              ![thr[t].call].done = TRUE]
    /\ thr' = [thr EXCEPT ![t] = [Idle EXCEPT !.call = thr[t].call]]
    /\ UNCHANGED <<heap, last, wlog, varsSeq, varsLog>>

NextPool ==
    \/ \E t \in Threads, i \in Logged, r \in ConcRecords : Begin(t, i, r)
    \/ \E t \in Threads : Format(t)
    \/ \E t \in Threads : ReturnEmpty(t)
    \/ \E t \in Threads : EndLine(t)
    \/ \E t \in Threads : Lock(t)
    \/ \E t \in Threads, ok \in BOOLEAN : Write(t, ok)
    \/ \E t \in Threads : Unlock(t)
    \/ \E t \in Threads : Return(t)
    \/ \E t \in Threads, i \in Logged, attrs \in PoolAttrLists : WithBegin(t, i, attrs)
    \/ \E t \in Threads : WithRender(t)
    \/ \E t \in Threads : WithReturn(t)

SpecPool == InitPool /\ [][NextPool]_vars

(* ------------------------------------------------------------------ *)
(* Claims about the buffer pool                                        *)
(* ------------------------------------------------------------------ *)
\* the buffers that are allocated
Allocated == {b \in DOMAIN bufs : bufs[b].cap # 0}

\* C13: every buffer newBuffer hands out is empty and is held by one call
\* only until that call frees it; a buffer in the pool is empty, held by no
\* call and of capacity at most maxBufferSize; so what a call writes or
\* stores is what it produces on a freshly allocated empty buffer: a line
\* written is the rendering of the record alone, and the prefix WithAttrs
\* stores is the receiver's prefix followed by the rendering of the
\* attributes alone.
C13_PoolNotNeededForCorrectness ==
    /\ \A c \in 1..Len(calls) : calls[c].got = <<>>
    /\ \A b \in DOMAIN bufs : Cardinality(Holders(b)) <= 1
    /\ \A b \in pool :
            /\ Holders(b) = {}
            /\ bufs[b].data = <<>>
            /\ bufs[b].cap # 0 /\ bufs[b].cap <= maxBufferSize
    /\ \A t \in Threads : thr[t].pc # "idle" => thr[t].buf \in Allocated \ pool
    /\ \A k \in 1..Len(wlog) :
            LET c == calls[wlog[k].call]
            IN  wlog[k].data = endLine(formatRecord(handlers[c.h], c.rec, heap, <<>>).buf)
    /\ \A c \in 1..Len(calls) : calls[c].op = "WithAttrs" /\ calls[c].done =>
            LET h == handlers[calls[c].h]
            IN  handlers[calls[c].res].attrsPrefix =
                    h.attrsPrefix \o appendAttrs(Fmt(<<>>, heap, {}), h, calls[c].attrs,
                                                 h.groupPrefix, h.groups).buf

\* a WithAttrs call and a Handle call that wrote a line have both returned,
\* one having used the buffer the other put back
C13_Witness ==
    /\ Len(calls) >= 2
    /\ \E c, d \in 1..Len(calls) :
            /\ calls[c].op = "WithAttrs" /\ calls[c].done
            /\ calls[d].op = "Handle" /\ calls[d].done
            /\ calls[d].line # <<>> /\ ByteLen(calls[d].line) <= maxBufferSize
    /\ \A c \in 1..Len(calls) : calls[c].op = "Handle" => ByteLen(calls[c].line) <= maxBufferSize
    /\ \A c \in 1..Len(calls) : calls[c].done
    /\ Cardinality(Allocated) = 1
    /\ pool = Allocated

(* ------------------------------------------------------------------ *)
(* Package log: NewLogger and SetLevel                                 *)
(* ------------------------------------------------------------------ *)
\* var Level = map[string]slog.Level{...}
Level ==
    [n \in {"INFO", "WARN", "DEBUG", "ERROR"} |->
        CASE n = "INFO" -> LevelInfo
          [] n = "WARN" -> LevelWarn
          [] n = "DEBUG" -> LevelDebug
          [] OTHER -> LevelError]

\* Level[name]: a name not in the map gives the zero slog.Level
LevelLookup(name) == IF name \in DOMAIN Level THEN Level[name] ELSE 0

\* strings.ToUpper, on the names used
ToUpper(name) ==
    CASE name = "info" -> "INFO"
      [] name = "warn" -> "WARN"
      [] name = "debug" -> "DEBUG"
      [] name = "error" -> "ERROR"
      [] OTHER -> name

\* An Option is a function that assigns one field of the Options it is given
WithLevel(level) == [field |-> "Level", value |-> level]
WithOutputType(outputType) == [field |-> "OutputType", value |-> outputType]
WithMaxSize(maxSize) == [field |-> "MaxSize", value |-> maxSize]
WithMaxBackups(maxBackups) == [field |-> "MaxBackups", value |-> maxBackups]
WithMaxAge(maxAge) == [field |-> "MaxAge", value |-> maxAge]
WithCompress(compress) == [field |-> "Compress", value |-> compress]

\* opt(options)
ApplyOption(options, opt) == [options EXCEPT ![opt.field] = opt.value]

\* for _, opt := range opts { opt(options) }
RECURSIVE ApplyOptions(_, _)
ApplyOptions(options, opts) ==
    IF opts = <<>> THEN options
    ELSE ApplyOptions(ApplyOption(options, Head(opts)), Tail(opts))

\* the Leveler of a Handler as it would be if NewLogger gave it the level
\* the variable holds at the time
LevelerSnapshot(lv) == [var |-> FALSE, level |-> lv]

\* Level: levelVar: the Handler is given the pointer to the variable, which
\* is a slog.Leveler
Leveler(lv) == [var |-> TRUE, level |-> 0]

\* the io.Writer NewLogger makes for the options
LogWriter(options) ==
    IF options.OutputType = "file"
    THEN [kind |-> "file", MaxSize |-> options.MaxSize, MaxBackups |-> options.MaxBackups,
          MaxAge |-> options.MaxAge, Compress |-> options.Compress]
    ELSE [kind |-> "stdout"]

\* NewLogger(savePath, opts...): options := defaultOptions copies the pointer,
\* so the options are applied to the struct defaultOptions points to.  The
\* result: that struct and the level variable after the call, and the logger.
NewLogger(dflt, lv, opts) ==
    LET options == ApplyOptions(dflt, opts)
        set == LevelLookup(ToUpper(options.Level))
    IN  [defaultOptions |-> options,
         levelVar |-> set,
         used |-> options,
         logger |-> [level |-> Leveler(set), timeFormat |-> "DateTime",
                     noColor |-> (options.OutputType = "file"), addSource |-> TRUE,
                     w |-> LogWriter(options)]]

\* SetLevel(level): levelVar.Set(Level[level])
SetLevel(name) == LevelLookup(name)

\* h.level.Level(): the minimum level the Handler of a logger gates at now
GateLevel(lg) == IF lg.level.var THEN levelVar ELSE lg.level.level

\* the option lists passed to NewLogger
LogOptionLists ==
    {<<>>,
     <<WithLevel("DEBUG")>>,
     <<WithLevel("warn")>>,
     <<WithOutputType("file"), WithMaxSize(5), WithMaxBackups(2)>>,
     <<WithCompress(FALSE), WithMaxAge(7)>>}

\* the names passed to SetLevel
LevelNames == {"INFO", "WARN", "DEBUG", "ERROR", "TRACE"}

InitLog ==
    /\ handlers = <<>>
    /\ heap = <<>>
    /\ last = NoCall
    /\ nderived = 0
    /\ InitConcIdle
    /\ req = NoOp
    /\ lastop = NoOp
    /\ InitLogIdle

NewLoggerCall(opts) ==
    /\ Len(loggers) < MaxLoggers
    /\ \E n \in {NewLogger(defaultOptions, levelVar, opts)} :
            /\ defaultOptions' = n.defaultOptions
            /\ levelVar' = n.levelVar
            /\ loggers' = Append(loggers, n.logger)
            /\ lastlog' = [op |-> "NewLogger", opts |-> opts, used |-> n.used,
                           set |-> n.levelVar, res |-> Len(loggers) + 1]
    /\ UNCHANGED <<varsDerive, varsConc, varsSeq>>

SetLevelCall(name) ==
    /\ levelVar' = SetLevel(name)
    /\ lastlog' = [op |-> "SetLevel", name |-> name, set |-> SetLevel(name)]
    /\ UNCHANGED <<varsDerive, varsConc, varsSeq, defaultOptions, loggers>>

NextLog ==
    \/ \E opts \in LogOptionLists : NewLoggerCall(opts)
    \/ \E name \in LevelNames : SetLevelCall(name)

SpecLog == InitLog /\ [][NextLog]_vars

(* ------------------------------------------------------------------ *)
(* Claims about package log                                            *)
(* ------------------------------------------------------------------ *)
\* C15: the minimum level is one process-wide variable: after SetLevel of
\* INFO, WARN, DEBUG or ERROR the level is the slog level of that name, and
\* after any NewLogger and SetLevel calls every logger NewLogger has
\* returned gates at the level the most recent of the calls set.
C15_OneProcessWideLevel ==
    lastlog.op # "none" =>
        /\ lastlog.op = "SetLevel" =>
            /\ lastlog.name = "INFO" => levelVar = 0
            /\ lastlog.name = "WARN" => levelVar = 4
            /\ lastlog.name = "DEBUG" => levelVar = -4
            /\ lastlog.name = "ERROR" => levelVar = 8
        /\ levelVar = lastlog.set
        /\ \A i \in 1..Len(loggers) : GateLevel(loggers[i]) = lastlog.set

\* SetLevel("ERROR") was the last call, after NewLogger had made loggers,
\* one of them with the level DEBUG
C15_Witness ==
    /\ lastlog.op = "SetLevel"
    /\ lastlog.name = "ERROR"
    /\ Len(loggers) >= 2
    /\ defaultOptions.Level = "DEBUG"

\* C16: a NewLogger call is configured by the package defaults overridden
\* by the options passed to that call only: the options it used are the
\* package defaults with its own options applied, and the default option
\* values are the package defaults after the call.
C16_ConfiguredByOwnOptionsOnly ==
    lastlog.op = "NewLogger" =>
        /\ lastlog.used = ApplyOptions(PackageDefaults, lastlog.opts)
        /\ defaultOptions = PackageDefaults

====
